---- MODULE Spec2Model ----
(***************************************************************************)
(* Model of src/Method.cpp: the Method entity of the HIDL compiler, its    *)
(* reservation (fillImplementation), role dispatch, callback elision, the  *)
(* native argument signature, the evaluate/validate passes and             *)
(* TypedVarVector::add.                                                    *)
(***************************************************************************)
EXTENDS Integers, Sequences, FiniteSets, TLC

VARIABLES methods, heap, ret, aborted, vec, mNames

vars == <<methods, heap, ret, aborted, vec, mNames>>

----------------------------------------------------------------------------
(* Bounds *)

MaxSerial == 1
MaxArgs == 2
MaxResults == 2
MaxEvalArgs == 3
MaxEvalResults == 1
MaxEvalAnnotations == 1

----------------------------------------------------------------------------
(* Values *)

OK == "OK"
UNKNOWN_ERROR == "UNKNOWN_ERROR"
BAD_VALUE == "BAD_VALUE"

IMPL_INTERFACE == "IMPL_INTERFACE"
IMPL_STUB == "IMPL_STUB"
IMPL_STUB_IMPL == "IMPL_STUB_IMPL"

MethodImplType == {IMPL_INTERFACE, IMPL_STUB, IMPL_STUB_IMPL}

nullptr == "nullptr"

\* the std::function stored for a role: a null function or a routine that
\* writes its body to the Formatter
Routines == {nullptr, "body"}

\* MethodImpl: a map from role to routine
MethodImpl == UNION {[D -> Routines] : D \in SUBSET MethodImplType}

EmptyImpl == <<>>

Serials == 0..MaxSerial

MethodNames == {"debug", "foo"}

\* the location the parser gives a declared method, and Location()
ParsedLocation == "IFoo.hal:12"

EmptyLocation == "Location()"

\* no NamedReference (the null pointer canElideCallback returns)
NullRef == [name |-> nullptr, type |-> nullptr, evaluate |-> nullptr, validate |-> nullptr]

\* ids of the three vectors a parsed method points to
ArgsVec == 1
ResultsVec == 2
AnnotationsVec == 3

----------------------------------------------------------------------------
(* The type system, as Method.cpp uses it *)

\* four HIDL types, one for each answer the type system can give to
\* isElidableType and isJavaCompatible
Types == {"int32_t", "pointer", "string", "memory"}

isElidableType(t) == t \in {"int32_t", "pointer"}

isJavaCompatibleType(t) == t \in {"int32_t", "string"}

\* the C++ text of a type in argument position
getCppArgumentType(t) ==
    CASE t = "int32_t" -> "int32_t"
      [] t = "pointer" -> "void*"
      [] t = "string" -> "const hidl_string&"
      [] t = "memory" -> "const hidl_memory&"

ArgNames == <<"a", "b", "c", "d", "e">>

ResultNames == <<"x", "y", "z", "u", "v">>

\* a NamedReference<Type>: a name, the type it refers to, and what the
\* type's evaluate and validate return
NamedRef(n, t, ev, va) == [name |-> n, type |-> t, evaluate |-> ev, validate |-> va]

\* an Annotation: what its evaluate and validate return
AnnotationOf(ev, va) == [evaluate |-> ev, validate |-> va]

RECURSIVE SeqsUpTo(_, _)
SeqsUpTo(S, n) ==
    IF n = 0 THEN {<<>>}
    ELSE LET shorter == SeqsUpTo(S, n - 1)
         IN shorter \cup {Append(s, e) : s \in {q \in shorter : Len(q) = n - 1}, e \in S}

\* vectors of up to n references named by position, with types from T and
\* (evaluate, validate) outcomes from St
RefVectors(names, T, St, n) ==
    LET shapes == SeqsUpTo(T \X St, IF n < Len(names) THEN n ELSE Len(names))
    IN {[i \in 1..Len(s) |-> NamedRef(names[i], s[i][1], s[i][2][1], s[i][2][2])] : s \in shapes}

AnnotationVectors(St, n) ==
    LET shapes == SeqsUpTo(St, n)
    IN {[i \in 1..Len(s) |-> AnnotationOf(s[i][1], s[i][2])] : s \in shapes}

----------------------------------------------------------------------------
(* Method *)

\* Method::Method: the members the constructor sets; mIsHidlReserved and
\* mSerial take the values their declarations give them, the maps are empty
InitialIsHidlReserved == FALSE

Method(name, args, results, oneway, annotations, location, serial0) ==
    [mName |-> name,
     mArgs |-> args,
     mResults |-> results,
     mOneway |-> oneway,
     mAnnotations |-> annotations,
     mLocation |-> location,
     mIsHidlReserved |-> InitialIsHidlReserved,
     mSerial |-> serial0,
     mCppImpl |-> EmptyImpl,
     mJavaImpl |-> EmptyImpl]

name(m) == m.mName

args(m) == heap[m.mArgs]

results(m) == heap[m.mResults]

annotations(m) == heap[m.mAnnotations]

isHidlReserved(m) == m.mIsHidlReserved

\* the record of the last call made: the operation, the method it was made
\* on, its argument, whether it returned ("ok") or died in a CHECK
\* ("abort"), and the value returned (for an emitting call, the text it
\* wrote to the Formatter)
NoCall == [op |-> "none", m |-> 0, arg |-> nullptr, status |-> "ok", val |-> nullptr]

Call(op, m, arg, r) == [op |-> op, m |-> m, arg |-> arg, status |-> r.status, val |-> r.val]

Returns(v) == [status |-> "ok", val |-> v]

Aborts == [status |-> "abort", val |-> nullptr]

\* Method::fillImplementation: the four assignments
fillImplementation(m, serial, cppImpl, javaImpl) ==
    [m EXCEPT !.mIsHidlReserved = TRUE,
              !.mSerial = serial,
              !.mCppImpl = cppImpl,
              !.mJavaImpl = javaImpl]

\* a variant whose first CHECK looks for IMPL_STUB in the Java map
fillImplementationChecksJavaStub(m) ==
    /\ IMPL_STUB \notin DOMAIN m.mJavaImpl
    /\ \/ IMPL_STUB_IMPL \notin DOMAIN m.mCppImpl
       \/ IMPL_STUB \notin DOMAIN m.mCppImpl

\* Method::fillImplementation: the two CHECKs made after the assignments
fillImplementationChecks(m) ==
    /\ IMPL_STUB_IMPL \notin DOMAIN m.mJavaImpl
    /\ \/ IMPL_STUB_IMPL \notin DOMAIN m.mCppImpl
       \/ IMPL_STUB \notin DOMAIN m.mCppImpl

\* a variant that calls the stored function without the null test
cppImplNoNullTest(m, type, o) ==
    IF ~m.mIsHidlReserved THEN Aborts
    ELSE IF type \in DOMAIN m.mCppImpl
         THEN Returns(Append(o, m.mCppImpl[type]))
         ELSE Returns(o)

\* Method::cppImpl: the text written to the Formatter o
cppImpl(m, type, o) ==
    IF ~m.mIsHidlReserved THEN Aborts
    ELSE IF type \in DOMAIN m.mCppImpl
         THEN IF m.mCppImpl[type] # nullptr
              THEN Returns(Append(o, m.mCppImpl[type]))
              ELSE Returns(o)
         ELSE Returns(o)

\* Method::javaImpl
javaImpl(m, type, o) ==
    IF ~m.mIsHidlReserved THEN Aborts
    ELSE IF type \in DOMAIN m.mJavaImpl
         THEN IF m.mJavaImpl[type] # nullptr
              THEN Returns(Append(o, m.mJavaImpl[type]))
              ELSE Returns(o)
         ELSE Returns(o)

\* Method::overridesCppImpl
overridesCppImpl(m, type) ==
    IF ~m.mIsHidlReserved THEN Aborts
    ELSE Returns(type \in DOMAIN m.mCppImpl)

\* Method::overridesJavaImpl
overridesJavaImpl(m, type) ==
    IF ~m.mIsHidlReserved THEN Aborts
    ELSE Returns(type \in DOMAIN m.mJavaImpl)

\* a variant that copies the whole object, reservation included
copySignatureWholeObject(m, serial0) ==
    [m EXCEPT !.mLocation = EmptyLocation, !.mSerial = serial0]

\* Method::copySignature: the new Method; serial0 is the value its mSerial
\* starts with
copySignature(m, serial0) ==
    Method(m.mName, m.mArgs, m.mResults, m.mOneway, m.mAnnotations, EmptyLocation, serial0)

\* a variant without the CHECK
setSerialIdUnchecked(m, serial) ==
    Returns([m EXCEPT !.mSerial = serial])

\* Method::setSerialId
setSerialId(m, serial) ==
    IF m.mIsHidlReserved THEN Aborts
    ELSE Returns([m EXCEPT !.mSerial = serial])

\* a variant that elides whenever the first result is elidable
canElideCallbackFirstResult(m) ==
    IF results(m) = <<>> THEN NullRef
    ELSE IF isElidableType(results(m)[1].type) THEN results(m)[1]
    ELSE NullRef

\* Method::canElideCallback: the elided result, or NullRef
canElideCallback(m) ==
    IF Len(results(m)) # 1 THEN NullRef
    ELSE LET typedVar == results(m)[1]
         IN IF isElidableType(typedVar.type) THEN typedVar ELSE NullRef

\* a variant that leaves out the test of the results
hasEmptyCppArgSignatureArgsOnly(m) ==
    args(m) = <<>>

\* Method::hasEmptyCppArgSignature
hasEmptyCppArgSignature(m) ==
    args(m) = <<>> /\ (results(m) = <<>> \/ canElideCallback(m) # NullRef)

\* Formatter::join over list[i..]: the separator between two elements, and
\* for each element its C++ argument type, a space and its name
RECURSIVE joinFrom(_, _, _, _)
joinFrom(o, list, i, separator) ==
    IF i > Len(list) THEN o
    ELSE LET sep == IF i > 1 THEN Append(o, separator) ELSE o
             one == sep \o <<getCppArgumentType(list[i].type), " ", list[i].name>>
         IN joinFrom(one, list, i + 1, separator)

\* emitCppArgResultSignature
emitCppArgResultSignature(o, list) == joinFrom(o, list, 1, ", ")

\* a variant that appends the callback whenever there are results
emitCppArgSignatureIgnoresElision(m, o) ==
    LET o1 == emitCppArgResultSignature(o, args(m))
        returnsValue == results(m) # <<>>
    IN IF returnsValue
       THEN (IF args(m) # <<>> THEN Append(o1, ", ") ELSE o1) \o <<name(m), "_cb _hidl_cb">>
       ELSE o1

\* Method::emitCppArgSignature: the text written to the Formatter o
emitCppArgSignature(m, o) ==
    LET o1 == emitCppArgResultSignature(o, args(m))
        returnsValue == results(m) # <<>>
        elidedReturn == canElideCallback(m)
    IN IF returnsValue /\ elidedReturn = NullRef
       THEN (IF args(m) # <<>> THEN Append(o1, ", ") ELSE o1) \o <<name(m), "_cb _hidl_cb">>
       ELSE o1

\* Method::isHiddenFromJava
isHiddenFromJava(m) == isHidlReserved(m) /\ name(m) = "debug"

\* a variant that does not look at the results
isJavaCompatibleArgsOnly(m) ==
    IF isHiddenFromJava(m) THEN TRUE
    ELSE IF ~(\A i \in 1..Len(args(m)) : isJavaCompatibleType(args(m)[i].type)) THEN FALSE
    ELSE TRUE

\* Method::isJavaCompatible
isJavaCompatible(m) ==
    IF isHiddenFromJava(m) THEN TRUE
    ELSE IF ~(\A i \in 1..Len(args(m)) : isJavaCompatibleType(args(m)[i].type)) THEN FALSE
    ELSE IF ~(\A i \in 1..Len(results(m)) : isJavaCompatibleType(results(m)[i].type)) THEN FALSE
    ELSE TRUE

\* one loop of evaluate or validate over list[i..]: each element's routine
\* (pass is "evaluate" or "validate") is called in turn, the call is logged
\* as <<tag, i>>, and the first error ends the pass
RECURSIVE passLoop(_, _, _, _, _)
passLoop(list, i, pass, tag, log) ==
    IF i > Len(list) THEN [err |-> OK, calls |-> log]
    ELSE LET err == list[i][pass]
             logged == Append(log, <<tag, i>>)
         IN IF err # OK THEN [err |-> err, calls |-> logged]
            ELSE passLoop(list, i + 1, pass, tag, logged)

\* a variant whose loops go on after an error and return the last one
RECURSIVE passLoopNoReturn(_, _, _, _, _, _)
passLoopNoReturn(list, i, pass, tag, log, last) ==
    IF i > Len(list) THEN [err |-> last, calls |-> log]
    ELSE passLoopNoReturn(list, i + 1, pass, tag, Append(log, <<tag, i>>),
                          IF list[i][pass] # OK THEN list[i][pass] ELSE last)

runPassNoReturn(m, pass) ==
    LET a == passLoopNoReturn(args(m), 1, pass, "arg", <<>>, OK)
        r == passLoopNoReturn(results(m), 1, pass, "result", a.calls, a.err)
    IN passLoopNoReturn(annotations(m), 1, pass, "annotation", r.calls, r.err)

\* the body evaluate and validate share: arguments, then results, then
\* annotations
runPass(m, pass) ==
    LET a == passLoop(args(m), 1, pass, "arg", <<>>)
    IN IF a.err # OK THEN a
       ELSE LET r == passLoop(results(m), 1, pass, "result", a.calls)
            IN IF r.err # OK THEN r
               ELSE passLoop(annotations(m), 1, pass, "annotation", r.calls)

\* Method::evaluate
evaluate(m) == runPass(m, "evaluate")

\* Method::validate
validate(m) == runPass(m, "validate")

\* a variant that pushes the reference whether or not the name is new
addAlwaysPushes(v) ==
    IF v.name \notin mNames
    THEN [mNames |-> mNames \cup {v.name}, vec |-> Append(vec, v), val |-> TRUE]
    ELSE [mNames |-> mNames, vec |-> Append(vec, v), val |-> FALSE]

\* TypedVarVector::add: the names, the vector and the value returned
add(v) ==
    IF v.name \notin mNames
    THEN [mNames |-> mNames \cup {v.name}, vec |-> Append(vec, v), val |-> TRUE]
    ELSE [mNames |-> mNames, vec |-> vec, val |-> FALSE]

----------------------------------------------------------------------------
(* Actions on Method objects.  A failed CHECK ends the process: nothing    *)
(* runs once aborted is TRUE.                                              *)

FillImplementation(id, serial, cppMap, javaMap) ==
    /\ ~aborted
    /\ id \in DOMAIN methods
    /\ LET filled == fillImplementation(methods[id], serial, cppMap, javaMap)
           passed == fillImplementationChecks(filled)
       IN /\ methods' = [methods EXCEPT ![id] = filled]
          /\ aborted' = ~passed
          /\ ret' = Call("fillImplementation", id, serial, IF passed THEN Returns(nullptr) ELSE Aborts)
    /\ UNCHANGED <<heap, vec, mNames>>

SetSerialId(id, serial) ==
    /\ ~aborted
    /\ id \in DOMAIN methods
    /\ LET r == setSerialId(methods[id], serial)
       IN /\ methods' = IF r.status = "ok" THEN [methods EXCEPT ![id] = r.val] ELSE methods
          /\ aborted' = (r.status = "abort")
          /\ ret' = Call("setSerialId", id, serial, IF r.status = "ok" THEN Returns(nullptr) ELSE Aborts)
    /\ UNCHANGED <<heap, vec, mNames>>

OverridesCppImpl(id, type) ==
    /\ ~aborted
    /\ id \in DOMAIN methods
    /\ LET r == overridesCppImpl(methods[id], type)
       IN /\ aborted' = (r.status = "abort")
          /\ ret' = Call("overridesCppImpl", id, type, r)
    /\ UNCHANGED <<methods, heap, vec, mNames>>

OverridesJavaImpl(id, type) ==
    /\ ~aborted
    /\ id \in DOMAIN methods
    /\ LET r == overridesJavaImpl(methods[id], type)
       IN /\ aborted' = (r.status = "abort")
          /\ ret' = Call("overridesJavaImpl", id, type, r)
    /\ UNCHANGED <<methods, heap, vec, mNames>>

\* the caller passes a Formatter that holds nothing yet; the call record
\* keeps the text the call wrote to it
CppImpl(id, type) ==
    /\ ~aborted
    /\ id \in DOMAIN methods
    /\ LET r == cppImpl(methods[id], type, <<>>)
       IN /\ aborted' = (r.status = "abort")
          /\ ret' = Call("cppImpl", id, type, r)
    /\ UNCHANGED <<methods, heap, vec, mNames>>

JavaImpl(id, type) ==
    /\ ~aborted
    /\ id \in DOMAIN methods
    /\ LET r == javaImpl(methods[id], type, <<>>)
       IN /\ aborted' = (r.status = "abort")
          /\ ret' = Call("javaImpl", id, type, r)
    /\ UNCHANGED <<methods, heap, vec, mNames>>

----------------------------------------------------------------------------
(* Spec: one parsed method, its reservation with every pair of role maps,  *)
(* and role dispatch                                                       *)

\* the vectors of a method  foo(int32_t a) generates (hidl_string x)
FooHeap ==
    (ArgsVec :> <<NamedRef("a", "int32_t", OK, OK)>>)
    @@ (ResultsVec :> <<NamedRef("x", "string", OK, OK)>>)
    @@ (AnnotationsVec :> <<>>)

Init ==
    /\ \E s0 \in Serials :
          methods = (1 :> Method("foo", ArgsVec, ResultsVec, FALSE, AnnotationsVec, ParsedLocation, s0))
    /\ heap = FooHeap
    /\ ret = NoCall
    /\ aborted = FALSE
    /\ vec = <<>>
    /\ mNames = {}

Next ==
    \/ \E c \in MethodImpl, j \in MethodImpl : FillImplementation(1, MaxSerial, c, j)
    \/ \E s \in Serials : SetSerialId(1, s)
    \/ \E t \in MethodImplType : OverridesCppImpl(1, t)
    \/ \E t \in MethodImplType : OverridesJavaImpl(1, t)
    \/ \E t \in MethodImplType : CppImpl(1, t)
    \/ \E t \in MethodImplType : JavaImpl(1, t)

Spec == Init /\ [][Next]_vars

----------------------------------------------------------------------------
(* SpecCopy: a parsed method, the methods copySignature makes of it, and   *)
(* their serials and reservations                                         *)

MaxMethods == 2

CopySignature(id, serial0) ==
    /\ ~aborted
    /\ id \in DOMAIN methods
    /\ Cardinality(DOMAIN methods) < MaxMethods
    /\ LET new == Cardinality(DOMAIN methods) + 1
       IN /\ methods' = methods @@ (new :> copySignature(methods[id], serial0))
          /\ ret' = Call("copySignature", id, nullptr, Returns(new))
    /\ UNCHANGED <<heap, aborted, vec, mNames>>

\* the vectors of the one-way method  oneway debug(int32_t a)
OnewayHeap ==
    (ArgsVec :> <<NamedRef("a", "int32_t", OK, OK)>>)
    @@ (ResultsVec :> <<>>)
    @@ (AnnotationsVec :> <<AnnotationOf(OK, OK)>>)

\* the role maps the reservations of this specification pass
CopyJavaMaps == {EmptyImpl, IMPL_INTERFACE :> nullptr}

InitCopy ==
    /\ \E s0 \in Serials, shape \in {<<"foo", FALSE, FooHeap>>, <<"debug", TRUE, OnewayHeap>>} :
          /\ methods = (1 :> Method(shape[1], ArgsVec, ResultsVec, shape[2], AnnotationsVec, ParsedLocation, s0))
          /\ heap = shape[3]
    /\ ret = NoCall
    /\ aborted = FALSE
    /\ vec = <<>>
    /\ mNames = {}

NextCopy ==
    \/ \E id \in DOMAIN methods, s0 \in Serials : CopySignature(id, s0)
    \/ \E id \in DOMAIN methods, s \in Serials, j \in CopyJavaMaps :
          FillImplementation(id, s, IMPL_STUB :> "body", j)
    \/ \E id \in DOMAIN methods, s \in Serials : SetSerialId(id, s)
    \/ \E id \in DOMAIN methods, t \in MethodImplType : OverridesCppImpl(id, t)
    \/ \E id \in DOMAIN methods, t \in MethodImplType : OverridesJavaImpl(id, t)
    \/ \E id \in DOMAIN methods, t \in MethodImplType : CppImpl(id, t)
    \/ \E id \in DOMAIN methods, t \in MethodImplType : JavaImpl(id, t)

SpecCopy == InitCopy /\ [][NextCopy]_vars

----------------------------------------------------------------------------
(* Claims on the Method lifecycle *)

StubImplInJava(m) == IMPL_STUB_IMPL \in DOMAIN m.mJavaImpl

StubAndStubImplInCpp(m) == {IMPL_STUB, IMPL_STUB_IMPL} \subseteq DOMAIN m.mCppImpl

\* C7: a fillImplementation is rejected exactly when the Java map it passes
\* holds IMPL_STUB_IMPL or the C++ map it passes holds IMPL_STUB and
\* IMPL_STUB_IMPL together; so while the process lives no method has
\* IMPL_STUB_IMPL in its Java map or both roles in its C++ map, whatever
\* reservations came before.
C7_ReservationInvariants ==
    /\ ret.op = "fillImplementation"
         => ((ret.status = "abort" /\ aborted)
              <=> (StubImplInJava(methods[ret.m]) \/ StubAndStubImplInCpp(methods[ret.m])))
    /\ ~aborted
         => \A id \in DOMAIN methods :
               ~StubImplInJava(methods[id]) /\ ~StubAndStubImplInCpp(methods[id])

\* a reservation whose C++ map held both roles was rejected
C7_Witness ==
    /\ ret.op = "fillImplementation"
    /\ aborted
    /\ StubAndStubImplInCpp(methods[ret.m])
    /\ ~StubImplInJava(methods[ret.m])

RoleLookups == {"overridesCppImpl", "overridesJavaImpl", "cppImpl", "javaImpl"}

LookedUpMap(m, op) == IF op \in {"overridesCppImpl", "cppImpl"} THEN m.mCppImpl ELSE m.mJavaImpl

\* C8: a role lookup on a method that is not reserved dies in the CHECK; on
\* a reserved method it returns: overrides* tells whether the role is in the
\* backend's map, and *Impl writes the routine of the role when the role is
\* there with a routine, nothing when it is absent or there with nullptr.
C8_RoleDispatch ==
    ret.op \in RoleLookups =>
        LET m == methods[ret.m]
            map == LookedUpMap(m, ret.op)
        IN IF ~m.mIsHidlReserved
           THEN ret.status = "abort" /\ aborted
           ELSE /\ ret.status = "ok"
                /\ ~aborted
                /\ ret.op \in {"overridesCppImpl", "overridesJavaImpl"}
                     => ret.val = (ret.arg \in DOMAIN map)
                /\ ret.op \in {"cppImpl", "javaImpl"}
                     => ret.val = IF ret.arg \notin DOMAIN map THEN <<>>
                                  ELSE IF map[ret.arg] = nullptr THEN <<>>
                                  ELSE <<map[ret.arg]>>

\* cppImpl found the role registered with the no-op marker and wrote nothing
C8_Witness ==
    /\ ret.op = "cppImpl"
    /\ ret.status = "ok"
    /\ ret.arg \in DOMAIN methods[ret.m].mCppImpl
    /\ methods[ret.m].mCppImpl[ret.arg] = nullptr
    /\ ret.val = <<>>

\* C10: copySignature returns a new method with the name, the one-way flag
\* and the very vectors (same pointers) of the source, an empty location, not
\* reserved and with empty role maps; every method there was, the source
\* included, and every vector is left as it was.  A role lookup on a copy not
\* yet reserved is rejected.
C10_CopySignature ==
    /\ [][ret'.op = "copySignature"
           => LET src == methods[ret'.m]
                  new == ret'.val
              IN /\ new \notin DOMAIN methods
                 /\ new \in DOMAIN methods'
                 /\ methods'[new].mName = src.mName
                 /\ methods'[new].mOneway = src.mOneway
                 /\ methods'[new].mArgs = src.mArgs
                 /\ methods'[new].mResults = src.mResults
                 /\ methods'[new].mAnnotations = src.mAnnotations
                 /\ methods'[new].mLocation = EmptyLocation
                 /\ ~methods'[new].mIsHidlReserved
                 /\ methods'[new].mCppImpl = EmptyImpl
                 /\ methods'[new].mJavaImpl = EmptyImpl
                 /\ \A id \in DOMAIN methods : methods'[id] = methods[id]
                 /\ heap' = heap
                 /\ aborted' = aborted]_vars
    /\ [](ret.op \in RoleLookups /\ ret.m > 1 /\ ~methods[ret.m].mIsHidlReserved
            => ret.status = "abort" /\ aborted)

\* a reserved method with a serial and role maps was copied
C10_Witness ==
    /\ ret.op = "copySignature"
    /\ methods[ret.m].mIsHidlReserved
    /\ methods[ret.m].mCppImpl # EmptyImpl
    /\ ~methods[ret.val].mIsHidlReserved
    /\ methods[ret.val].mArgs = methods[ret.m].mArgs

----------------------------------------------------------------------------
(* SpecSig: callback elision, the native argument signature and Java       *)
(* compatibility of a method of any shape                                  *)

CanElideCallback(id) ==
    /\ ~aborted
    /\ id \in DOMAIN methods
    /\ ret' = Call("canElideCallback", id, nullptr, Returns(canElideCallback(methods[id])))
    /\ UNCHANGED <<methods, heap, aborted, vec, mNames>>

HasEmptyCppArgSignature(id) ==
    /\ ~aborted
    /\ id \in DOMAIN methods
    /\ ret' = Call("hasEmptyCppArgSignature", id, nullptr, Returns(hasEmptyCppArgSignature(methods[id])))
    /\ UNCHANGED <<methods, heap, aborted, vec, mNames>>

EmitCppArgSignature(id) ==
    /\ ~aborted
    /\ id \in DOMAIN methods
    /\ ret' = Call("emitCppArgSignature", id, nullptr, Returns(emitCppArgSignature(methods[id], <<>>)))
    /\ UNCHANGED <<methods, heap, aborted, vec, mNames>>

IsJavaCompatible(id) ==
    /\ ~aborted
    /\ id \in DOMAIN methods
    /\ ret' = Call("isJavaCompatible", id, nullptr, Returns(isJavaCompatible(methods[id])))
    /\ UNCHANGED <<methods, heap, aborted, vec, mNames>>

Evaluated == {<<OK, OK>>}

\* the role maps the reservations of this specification pass
SigJavaMaps == {EmptyImpl, IMPL_INTERFACE :> "body"}

InitSig ==
    /\ \E n \in MethodNames,
          a \in RefVectors(ArgNames, Types, Evaluated, MaxArgs),
          r \in RefVectors(ResultNames, Types, Evaluated, MaxResults) :
          /\ methods = (1 :> Method(n, ArgsVec, ResultsVec, FALSE, AnnotationsVec, ParsedLocation, 0))
          /\ heap = (ArgsVec :> a) @@ (ResultsVec :> r) @@ (AnnotationsVec :> <<>>)
    /\ ret = NoCall
    /\ aborted = FALSE
    /\ vec = <<>>
    /\ mNames = {}

NextSig ==
    \/ \E j \in SigJavaMaps : FillImplementation(1, 1, IMPL_STUB :> "body", j)
    \/ CanElideCallback(1)
    \/ HasEmptyCppArgSignature(1)
    \/ EmitCppArgSignature(1)
    \/ IsJavaCompatible(1)

SpecSig == InitSig /\ [][NextSig]_vars

\* the method the last call was made on
Callee == methods[ret.m]

\* the text of the explicit arguments alone: for argument i of n the tokens
\* type, " ", name at places 4i-3 .. 4i-1 and ", " at place 4i when i < n
ExplicitArgs(list) ==
    [k \in 1..(IF list = <<>> THEN 0 ELSE 4 * Len(list) - 1) |->
        LET i == ((k - 1) \div 4) + 1
            r == (k - 1) % 4
        IN CASE r = 0 -> getCppArgumentType(list[i].type)
             [] r = 1 -> " "
             [] r = 2 -> list[i].name
             [] r = 3 -> ", "]

OneElidableResult(m) == Len(results(m)) = 1 /\ isElidableType(results(m)[1].type)

SignatureCalls == {"canElideCallback", "emitCppArgSignature"}

\* C1: with exactly one result, of an elidable type, canElideCallback
\* returns that result and emitCppArgSignature writes the explicit arguments
\* only: no callback parameter and no separator after the last argument.
C1_ElidedSignature ==
    (ret.op \in SignatureCalls /\ OneElidableResult(Callee)) =>
        /\ ret.op = "canElideCallback"
             => ret.val = results(Callee)[1] /\ ret.val # NullRef
        /\ ret.op = "emitCppArgSignature"
             => /\ ret.val = ExplicitArgs(args(Callee))
                /\ \A k \in 1..Len(ret.val) : ret.val[k] # "_cb _hidl_cb"
                /\ ret.val # <<>> => ret.val[Len(ret.val)] = args(Callee)[Len(args(Callee))].name

\* the signature of a method with two arguments and an elided result was
\* emitted
C1_Witness ==
    /\ ret.op = "emitCppArgSignature"
    /\ OneElidableResult(Callee)
    /\ Len(args(Callee)) = 2
    /\ Len(ret.val) = 7

CallbackParameter(m) == <<name(m), "_cb _hidl_cb">>

\* C2 as stated: with no result, several results or one result that is not
\* elidable, canElideCallback returns none, and unless there are no
\* arguments emitCppArgSignature ends with ", " and the callback parameter.
C2_CallbackAppended ==
    (ret.op \in SignatureCalls /\ ~OneElidableResult(Callee)) =>
        /\ ret.op = "canElideCallback" => ret.val = NullRef
        /\ (ret.op = "emitCppArgSignature" /\ args(Callee) # <<>>)
             => ret.val = ExplicitArgs(args(Callee)) \o <<", ">> \o CallbackParameter(Callee)

\* C2 amended: in those cases canElideCallback returns none; with several
\* results or one result that is not elidable emitCppArgSignature ends with
\* the callback parameter, after ", " when there are arguments and alone when
\* there are none; with no result it writes the explicit arguments only.
C2_CallbackAppendedWhenResults ==
    (ret.op \in SignatureCalls /\ ~OneElidableResult(Callee)) =>
        /\ ret.op = "canElideCallback" => ret.val = NullRef
        /\ ret.op = "emitCppArgSignature"
             => ret.val = IF results(Callee) = <<>> THEN ExplicitArgs(args(Callee))
                          ELSE IF args(Callee) = <<>> THEN CallbackParameter(Callee)
                          ELSE ExplicitArgs(args(Callee)) \o <<", ">> \o CallbackParameter(Callee)

\* the signature of a method with arguments and two results, the first of
\* them elidable, was emitted with the callback parameter
C2_Witness ==
    /\ ret.op = "emitCppArgSignature"
    /\ Len(results(Callee)) = 2
    /\ isElidableType(results(Callee)[1].type)
    /\ Len(args(Callee)) = 1
    /\ Len(ret.val) = 6
    /\ ret.val[5] = name(Callee)

\* C3: hasEmptyCppArgSignature is true exactly when there is no argument and
\* there is no result or the one result is elided, which is exactly when
\* emitCppArgSignature writes nothing.
C3_EmptySignature ==
    ret.op = "hasEmptyCppArgSignature" =>
        /\ ret.val = (/\ Len(args(Callee)) = 0
                      /\ (Len(results(Callee)) = 0 \/ OneElidableResult(Callee)))
        /\ ret.val = (emitCppArgSignature(Callee, <<>>) = <<>>)

\* no argument and one elidable result: the signature is empty
C3_Witness ==
    /\ ret.op = "hasEmptyCppArgSignature"
    /\ ret.val = TRUE
    /\ args(Callee) = <<>>
    /\ Len(results(Callee)) = 1

AllJavaCompatible(list) == \A i \in 1..Len(list) : isJavaCompatibleType(list[i].type)

\* C9: isJavaCompatible is true of a reserved method named debug whatever
\* its types and its Java role map; of any other method it is true exactly
\* when every argument type and every result type is Java compatible.
C9_JavaCompatible ==
    ret.op = "isJavaCompatible" =>
        IF Callee.mIsHidlReserved /\ Callee.mName = "debug"
        THEN ret.val = TRUE
        ELSE ret.val = (AllJavaCompatible(args(Callee)) /\ AllJavaCompatible(results(Callee)))

\* a reserved debug with no Java role and a result that is not Java
\* compatible was found compatible
C9_Witness ==
    /\ ret.op = "isJavaCompatible"
    /\ ret.val = TRUE
    /\ Callee.mIsHidlReserved
    /\ Callee.mName = "debug"
    /\ Callee.mJavaImpl = EmptyImpl
    /\ ~AllJavaCompatible(results(Callee))

----------------------------------------------------------------------------
(* SpecEval: the evaluate and validate passes *)

Evaluate(id) ==
    /\ ~aborted
    /\ id \in DOMAIN methods
    /\ ret' = Call("evaluate", id, nullptr, Returns(evaluate(methods[id])))
    /\ UNCHANGED <<methods, heap, aborted, vec, mNames>>

Validate(id) ==
    /\ ~aborted
    /\ id \in DOMAIN methods
    /\ ret' = Call("validate", id, nullptr, Returns(validate(methods[id])))
    /\ UNCHANGED <<methods, heap, aborted, vec, mNames>>

\* what evaluate and validate of an element return
Outcomes == {<<OK, OK>>, <<UNKNOWN_ERROR, OK>>, <<OK, UNKNOWN_ERROR>>, <<BAD_VALUE, UNKNOWN_ERROR>>}

InitEval ==
    /\ \E a \in RefVectors(ArgNames, {"int32_t"}, Outcomes, MaxEvalArgs),
          r \in RefVectors(ResultNames, {"int32_t"}, Outcomes, MaxEvalResults),
          n \in AnnotationVectors(Outcomes, MaxEvalAnnotations) :
          /\ methods = (1 :> Method("foo", ArgsVec, ResultsVec, FALSE, AnnotationsVec, ParsedLocation, 0))
          /\ heap = (ArgsVec :> a) @@ (ResultsVec :> r) @@ (AnnotationsVec :> n)
    /\ ret = NoCall
    /\ aborted = FALSE
    /\ vec = <<>>
    /\ mNames = {}

NextEval ==
    \/ Evaluate(1)
    \/ Validate(1)

SpecEval == InitEval /\ [][NextEval]_vars

\* the elements of a method in the order arguments, results, annotations,
\* and what the pass returns for each
VisitOrder(m) ==
    [i \in 1..Len(args(m)) |-> <<"arg", i>>]
    \o [i \in 1..Len(results(m)) |-> <<"result", i>>]
    \o [i \in 1..Len(annotations(m)) |-> <<"annotation", i>>]

VisitOutcomes(m, pass) ==
    [i \in 1..Len(args(m)) |-> args(m)[i][pass]]
    \o [i \in 1..Len(results(m)) |-> results(m)[i][pass]]
    \o [i \in 1..Len(annotations(m)) |-> annotations(m)[i][pass]]

\* C5: a pass calls the elements in the order arguments, results,
\* annotations; when element k is the first to return an error the pass
\* returns that error, having called elements 1..k once each and no later
\* element; it returns OK only when every element returned OK, having called
\* them all.
C5_FailFast ==
    ret.op \in {"evaluate", "validate"} =>
        LET order == VisitOrder(Callee)
            outcome == VisitOutcomes(Callee, ret.op)
            failing == {i \in 1..Len(outcome) : outcome[i] # OK}
        IN IF failing = {}
           THEN ret.val.err = OK /\ ret.val.calls = order
           ELSE LET k == CHOOSE i \in failing : \A j \in failing : i <= j
                IN /\ ret.val.err = outcome[k]
                   /\ ret.val.err # OK
                   /\ ret.val.calls = SubSeq(order, 1, k)

\* the second of three arguments failed evaluation although a later element
\* would have failed with another error
C5_Witness ==
    /\ ret.op = "evaluate"
    /\ Len(args(Callee)) = 3
    /\ args(Callee)[1].evaluate = OK
    /\ args(Callee)[2].evaluate = BAD_VALUE
    /\ args(Callee)[3].evaluate = UNKNOWN_ERROR
    /\ ret.val.err = BAD_VALUE
    /\ Len(ret.val.calls) = 2

----------------------------------------------------------------------------
(* SpecVec: a TypedVarVector filled by add *)

Add(v) ==
    /\ ~aborted
    /\ LET r == add(v)
       IN /\ vec' = r.vec
          /\ mNames' = r.mNames
          /\ ret' = Call("add", 0, v, Returns(r.val))
    /\ UNCHANGED <<methods, heap, aborted>>

\* the references offered to add
VecNames == {"a", "b", "c"}

VecRefs == {NamedRef(n, t, OK, OK) : n \in VecNames, t \in {"int32_t", "string"}}

InitVec ==
    /\ methods = <<>>
    /\ heap = <<>>
    /\ ret = NoCall
    /\ aborted = FALSE
    /\ vec = <<>>
    /\ mNames = {}

NextVec == \E v \in VecRefs : Add(v)

SpecVec == InitVec /\ [][NextVec]_vars

NamePresent(n) == \E i \in 1..Len(vec) : vec[i].name = n

\* C4: add(v) returns false and changes nothing when a reference of that
\* name is in the collection, and otherwise returns true and appends v; so
\* the stored references have distinct names and are as many as the recorded
\* names.
C4_UniqueNames ==
    /\ [][ret'.op = "add"
           => IF NamePresent(ret'.arg.name)
              THEN ret'.val = FALSE /\ vec' = vec /\ mNames' = mNames
              ELSE ret'.val = TRUE /\ vec' = Append(vec, ret'.arg)]_vars
    /\ [](/\ \A i, j \in 1..Len(vec) : vec[i].name = vec[j].name => i = j
          /\ Cardinality(mNames) = Len(vec)
          /\ mNames = {vec[i].name : i \in 1..Len(vec)})

\* an add of a reference whose name was taken by another reference failed
C4_Witness ==
    /\ ret.op = "add"
    /\ ret.val = FALSE
    /\ Len(vec) = 2
    /\ \E i \in 1..Len(vec) : vec[i].name = ret.arg.name /\ vec[i] # ret.arg

====
